---- MODULE Spec2Model ----
(***************************************************************************)
(* Model of the document-analysis request handler of src/src/main.js.      *)
(*                                                                         *)
(* One invocation of module.exports is one behaviour.  Every action is the *)
(* code that runs between two awaits; the external calls (record store,    *)
(* object store, generative model) are issued by the handler and settle    *)
(* with an outcome chosen by the environment.                              *)
(*                                                                         *)
(* Representation                                                          *)
(*   - a JavaScript string whose characters matter (a file name) is a      *)
(*     sequence of one-character strings; <<>> is the empty/absent name;   *)
(*   - a base64 payload is its length (0: absent or empty, both falsy);    *)
(*   - a nullable value is a sequence of length 0 (null/undefined) or 1;   *)
(*   - an extracted text is [pad, body]: body characters surrounded by     *)
(*     pad whitespace characters;                                          *)
(*   - a value of a score field in parsed model output is a record         *)
(*     [kind, n], kind in absent / number / numstring / other;             *)
(*   - an error message is the sequence of its nested parts.               *)
(***************************************************************************)
EXTENDS Integers, Sequences, FiniteSets, TLC

(***************************************************************************)
(* Bounds of the model                                                     *)
(***************************************************************************)
\* length of the base64 payload of a small, valid document
SampleLen == 8
\* how far below 0 and above 100 the model's raw scores range
Excess == 5
\* number of whitespace characters around a padded extracted text
PadLen == 20

(***************************************************************************)
(* Program constants                                                       *)
(***************************************************************************)
MaxFileSize == 5 * 1024 * 1024
MinTextLength == 50
ReadyThreshold == 70
DefaultCareerScore == 50
ConsistencyScore == 75
MinScore == 0
MaxScore == 100

Pdf == <<".", "p", "d", "f">>
Jpg == <<".", "j", "p", "g">>
Jpeg == <<".", "j", "p", "e", "g">>
Png == <<".", "p", "n", "g">>
Doc == <<".", "d", "o", "c">>
Docx == <<".", "d", "o", "c", "x">>
Txt == <<".", "t", "x", "t">>
AllowedExtensions == {Pdf, Jpg, Jpeg, Png, Doc, Docx, Txt}

Docs == {"cv", "coverLetter"}

\* messages
MsgConfig == <<"Server configuration error">>
MsgInvalidJson == <<"Invalid JSON input">>
MsgMissingParams == <<"Missing required parameters: talentId and jobId are required">>
MsgNoDocuments == <<"At least one document (CV or cover letter) must be provided">>
MsgFileRequired == <<"File name and data are required">>
MsgUnsupported == <<"Unsupported file type. Please upload PDF, DOC, DOCX, JPG, PNG, or TXT files.">>
MsgReady == "Application ready - good fit for career stage"
MsgImprove == "Consider improvements before submission"
CompanyPlaceholder == "Company information not available"

(***************************************************************************)
(* JavaScript string and number helpers                                    *)
(***************************************************************************)
Max(a, b) == IF a >= b THEN a ELSE b
Min(a, b) == IF a <= b THEN a ELSE b

\* Math.ceil(n / d) for n >= 0, d > 0
CeilDiv(n, d) == (n + d - 1) \div d

\* Math.round(n / 2) for an integer n >= 0: halves round up
RoundHalf(n) == (n + 1) \div 2

\* Math.round(n / d) for integers n >= 0, d > 0: halves round up
RoundDiv(n, d) == (2 * n + d) \div (2 * d)

\* `File size too large (${Math.round(fileSizeBytes / 1024 / 1024)}MB). Please ...`
MsgTooLarge(fileSizeBytes) ==
    <<"File size too large (" \o ToString(RoundDiv(fileSizeBytes, 1024 * 1024))
        \o "MB). Please upload files smaller than 5MB.">>

Capitals ==
    <<"A", "B", "C", "D", "E", "F", "G", "H", "I", "J", "K", "L", "M",
      "N", "O", "P", "Q", "R", "S", "T", "U", "V", "W", "X", "Y", "Z">>
Smalls ==
    <<"a", "b", "c", "d", "e", "f", "g", "h", "i", "j", "k", "l", "m",
      "n", "o", "p", "q", "r", "s", "t", "u", "v", "w", "x", "y", "z">>

\* the lower case of one code unit: every capital letter has its small letter, any
\* other unit of the file names used here is its own lower case
LowerChar(c) ==
    IF \E i \in DOMAIN Capitals : Capitals[i] = c
    THEN Smalls[CHOOSE i \in DOMAIN Capitals : Capitals[i] = c]
    ELSE c

\* the capital I with dot above, the one character whose lower case is two code
\* units long: i and the combining dot above
CapitalIDot == "U+0130"
CombiningDot == "U+0307"

LowerUnits(c) == IF c = CapitalIDot THEN <<"i", CombiningDot>> ELSE <<LowerChar(c)>>

RECURSIVE ToLowerCase(_)
\* String.prototype.toLowerCase, code unit by code unit
ToLowerCase(s) == IF s = <<>> THEN <<>> ELSE LowerUnits(Head(s)) \o ToLowerCase(Tail(s))

\* String.prototype.lastIndexOf: 0-based, -1 when absent
LastIndexOf(s, ch) ==
    LET hits == {i \in 1..Len(s) : s[i] = ch}
    IN  IF hits = {} THEN -1
        ELSE (CHOOSE i \in hits : \A j \in hits : j <= i) - 1

\* String.prototype.substring(start): a negative start counts as 0
Substring(s, start) == SubSeq(s, Max(start, 0) + 1, Len(s))

(***************************************************************************)
(* utils                                                                   *)
(***************************************************************************)
FileExtension(fileName) ==
    Substring(ToLowerCase(fileName), LastIndexOf(fileName, "."))

FileSizeBytes(dataLen) == CeilDiv(dataLen * 3, 4)

Ok(v) == [threw |-> FALSE, error |-> <<>>, value |-> v]
Threw(e) == [threw |-> TRUE, error |-> e, value |-> <<>>]

\* utils.validateFile
ValidateFile(fileName, dataLen) ==
    IF fileName = <<>> \/ dataLen = 0 THEN Threw(MsgFileRequired)
    ELSE IF FileExtension(fileName) \notin AllowedExtensions THEN Threw(MsgUnsupported)
    ELSE IF FileSizeBytes(dataLen) > MaxFileSize
    THEN Threw(MsgTooLarge(FileSizeBytes(dataLen)))
    ELSE Ok(<<[extension |-> FileExtension(fileName), size |-> FileSizeBytes(dataLen)]>>)

Absent == [kind |-> "absent", n |-> 0]
Num(n) == [kind |-> "number", n |-> n]
NumString(n) == [kind |-> "numstring", n |-> n]
NonNumeric == [kind |-> "other", n |-> 0]

\* variant: Math.min(100, numScore) without the Math.max(0, ...)
NormalizeScoreNoFloor(score) ==
    LET numScore == IF score.kind \in {"number", "numstring"} THEN score.n ELSE 0
    IN  Min(MaxScore, numScore)

\* variant: a value that is not of type number is 0, without parseFloat
NormalizeScoreNoParse(score) ==
    LET numScore == IF score.kind = "number" THEN score.n ELSE 0
    IN  Max(MinScore, Min(MaxScore, numScore))

\* utils.normalizeScore: typeof score === 'number' ? score : parseFloat(score) || 0,
\* then clamped
NormalizeScore(score) ==
    LET numScore == IF score.kind \in {"number", "numstring"} THEN score.n ELSE 0
    IN  Max(MinScore, Min(MaxScore, numScore))

\* the five score fields analyzeCVForJob normalizes, by path
CvScoreFields ==
    {"overallMatchScore", "careerStageAlignment.score", "skillsAnalysis.matchPercentage",
     "educationMatch.degreeAlignment", "applicationReadiness"}

\* the seven score fields analyzeCoverLetterForJob normalizes, by path
ClScoreFields ==
    {"overallEffectiveness", "careerStageAppropriate.score", "contentQuality.jobAlignment",
     "contentQuality.companyResearch", "communicationEffectiveness.clarity",
     "communicationEffectiveness.persuasiveness",
     "communicationEffectiveness.professionalTone"}

ScoreFields(d) == IF d = "cv" THEN CvScoreFields ELSE ClScoreFields
TopLineField(d) == IF d = "cv" THEN "overallMatchScore" ELSE "overallEffectiveness"
CareerField(d) ==
    IF d = "cv" THEN "careerStageAlignment.score" ELSE "careerStageAppropriate.score"

\* variant: the field is normalized without the !== undefined guard
NormalizeFieldUnguarded(v) == Num(NormalizeScore(v))

\* if (analysis.<field> !== undefined) analysis.<field> = utils.normalizeScore(...)
NormalizeField(v) == IF v.kind = "absent" THEN v ELSE Num(NormalizeScore(v))

NormalizeFields(analysis) == [f \in DOMAIN analysis |-> NormalizeField(analysis[f])]

DocLabel(d) == IF d = "cv" THEN "cv" ELSE "cover letter"
AnalyzeLabel(d) == IF d = "cv" THEN "Failed to analyze CV" ELSE "Failed to analyze cover letter"

\* model call, utils.extractAndCleanJSON, JSON.parse and normalization of an analyzer;
\* reply.kind: error (the model call rejects), nojson (no {...} span in the text),
\* badjson (JSON.parse throws), object (parsed, with the score fields reply.fields)
AnalyzeReply(d, reply) ==
    CASE reply.kind = "error" -> Threw(<<AnalyzeLabel(d), "model call failed">>)
      [] reply.kind = "nojson" ->
            Threw(<<AnalyzeLabel(d), "Failed to clean JSON",
                    "No valid JSON object found in response">>)
      [] reply.kind = "badjson" -> Threw(<<AnalyzeLabel(d), "JSON parse error">>)
      [] OTHER -> Ok(<<NormalizeFields(reply.fields)>>)

\* variant: the catch of analyzeCVForJob returns null, as getEmployer's does
AnalyzeCVSwallows(reply) ==
    IF reply.kind = "object" THEN AnalyzeReply("cv", reply) ELSE Ok(<<>>)

\* aiAnalyzer.analyzeCVForJob
AnalyzeCVForJob(reply) == AnalyzeReply("cv", reply)

\* aiAnalyzer.analyzeCoverLetterForJob
AnalyzeCoverLetterForJob(reply) == AnalyzeReply("coverLetter", reply)

(***************************************************************************)
(* documentProcessor                                                       *)
(***************************************************************************)
TextLength(t) == t.pad + t.body
\* extractedText.trim().length
TrimLength(t) == t.body

\* variant: the length test without trim()
ExtractTextUntrimmed(d, reply) ==
    IF reply.kind = "error"
    THEN Threw(<<"Failed to extract text from", DocLabel(d), "model call failed">>)
    ELSE IF TextLength(reply.text) < MinTextLength
    THEN Threw(<<"Failed to extract text from", DocLabel(d),
                 "Insufficient text extracted from", DocLabel(d)>>)
    ELSE Ok(<<reply.text>>)

\* documentProcessor.extractText; reply.kind: error (the model call rejects) or text
ExtractText(d, reply) ==
    IF reply.kind = "error"
    THEN Threw(<<"Failed to extract text from", DocLabel(d), "model call failed">>)
    ELSE IF TextLength(reply.text) = 0 \/ TrimLength(reply.text) < MinTextLength
    THEN Threw(<<"Failed to extract text from", DocLabel(d),
                 "Insufficient text extracted from", DocLabel(d)>>)
    ELSE Ok(<<reply.text>>)

(***************************************************************************)
(* dataFetcher                                                             *)
(***************************************************************************)
TalentDoc == "talent-1"
EmployerDoc == [name |-> "Acme"]
\* an employer document whose name is the empty string
NamelessEmployerDoc == [name |-> ""]

\* variant: documents[0] is returned without the length check
GetTalentUnchecked(reply) ==
    CASE reply = "found" -> Ok(<<TalentDoc>>)
      [] reply = "empty" -> Ok(<<>>)
      [] OTHER -> Threw(<<"Failed to fetch talent information", "lookup failed">>)

\* dataFetcher.getTalent; reply: found, empty (zero matches) or error
GetTalent(reply) ==
    CASE reply = "found" -> Ok(<<TalentDoc>>)
      [] reply = "empty" ->
            Threw(<<"Failed to fetch talent information", "Talent profile not found">>)
      [] OTHER -> Threw(<<"Failed to fetch talent information", "lookup failed">>)

\* dataFetcher.getJob; reply.kind: ok or error, reply.employer: the job's employer id
GetJob(reply) ==
    IF reply.kind = "ok" THEN Ok(<<[employer |-> reply.employer]>>)
    ELSE Threw(<<"Failed to fetch job information", "lookup failed">>)

\* variant: the lookup failure is rethrown like getJob's
GetEmployerRethrows(reply) ==
    IF reply = "ok" THEN Ok(<<EmployerDoc>>)
    ELSE IF reply = "nameless" THEN Ok(<<NamelessEmployerDoc>>)
    ELSE Threw(<<"Failed to fetch employer information", "lookup failed">>)

\* dataFetcher.getEmployer, called with an id; reply: ok (a document with a name),
\* nameless (a document whose name is empty) or error
GetEmployer(reply) ==
    IF reply = "ok" THEN Ok(<<EmployerDoc>>)
    ELSE IF reply = "nameless" THEN Ok(<<NamelessEmployerDoc>>)
    ELSE Ok(<<>>)

(***************************************************************************)
(* fileUploader                                                            *)
(***************************************************************************)
FileId(d) == IF d = "cv" THEN "tmp-cv" ELSE "tmp-coverLetter"
FileIds == {FileId(d) : d \in Docs}

\* variant: uploadTemporaryFile lets the failure of storage.createFile through
UploadTemporaryFileRethrows(d, reply) ==
    IF reply = "ok" THEN Ok(<<FileId(d)>>) ELSE Threw(<<"Could not upload temporary file">>)

\* fileUploader.uploadTemporaryFile; reply: ok or error
UploadTemporaryFile(d, reply) == IF reply = "ok" THEN Ok(<<FileId(d)>>) ELSE Ok(<<>>)

(***************************************************************************)
(* The request and the replies of the collaborators                        *)
(***************************************************************************)
PdfName == <<"a", ".", "p", "d", "f">>
ExeName == <<"a", ".", "e", "x", "e">>
NameSamples == {<<>>, PdfName, ExeName}

\* the shortest payload whose computed size exceeds config.maxFileSize
OversizeLen == (MaxFileSize * 4) \div 3 + 1
LenSamples == {0, SampleLen, OversizeLen}

\* file names for validateFile: a stem, then nothing, a dot, or an extension in lower
\* or upper case, with or without its dot
StemSamples == {<<>>, <<"a">>, <<CapitalIDot>>, <<"a", ".", "b">>}
ExtensionSamples ==
    AllowedExtensions
    \cup {<<>>, <<".">>, <<"p", "d", "f">>, <<".", "P", "D", "F">>, <<".", "J", "P", "G">>,
          <<".", "D", "o", "c", "x">>, <<".", "e", "x", "e">>, <<".", "p", "d", "f", "x">>}
FileNameSamples == {stem \o ext : stem \in StemSamples, ext \in ExtensionSamples} \ {<<>>}

\* payload lengths around the ceiling: OversizeLen - 1 has a computed size of exactly
\* config.maxFileSize
SizeSamples == {1, SampleLen, OversizeLen - 1, OversizeLen, OversizeLen + Excess}

\* requests that carry a CV only
CvRequests ==
    [talentId : {TRUE}, jobId : {TRUE},
     cvData : SizeSamples, cvFileName : FileNameSamples,
     coverLetterData : {0}, coverLetterFileName : {<<>>}]

\* requestData after destructuring: talentId and jobId by truthiness
Requests ==
    [talentId : BOOLEAN, jobId : BOOLEAN,
     cvData : LenSamples, cvFileName : NameSamples,
     coverLetterData : LenSamples, coverLetterFileName : NameSamples]

EmptyRequest ==
    [talentId |-> FALSE, jobId |-> FALSE, cvData |-> 0, cvFileName |-> <<>>,
     coverLetterData |-> 0, coverLetterFileName |-> <<>>]

\* req.body: empty (falsy), malformed (a string JSON.parse rejects), null (the JSON
\* literal null) or object
BodyKinds == {"empty", "malformed", "null", "object"}

DataOf(rd, d) == IF d = "cv" THEN rd.cvData ELSE rd.coverLetterData
NameOf(rd, d) == IF d = "cv" THEN rd.cvFileName ELSE rd.coverLetterFileName

TalentReplies == {"found", "empty", "error"}
JobReplies ==
    {[kind |-> "error", employer |-> <<>>], [kind |-> "ok", employer |-> <<>>],
     [kind |-> "ok", employer |-> <<"employer-1">>]}
StoreReplies == {"ok", "error"}
EmployerReplies == {"ok", "nameless", "error"}

TextSamples ==
    [pad : {0, PadLen}, body : {0, MinTextLength - 1, MinTextLength}]
NoText == [pad |-> 0, body |-> 0]
ExtractReplies ==
    {[kind |-> "error", text |-> NoText]} \cup {[kind |-> "text", text |-> t] : t \in TextSamples}

TopLineSamples ==
    {Absent, NonNumeric, Num(ReadyThreshold - 1), Num(ReadyThreshold), Num(MaxScore + Excess)}
CareerSamples == {Absent, Num(MinScore - Excess), Num(MinScore), Num(ReadyThreshold)}

\* parsed model output with top-line score t, career-stage score c, and every other
\* declared score above the range
RawAnalysis(d, t, c) ==
    [f \in ScoreFields(d) |->
        IF f = TopLineField(d) THEN t
        ELSE IF f = CareerField(d) THEN c
        ELSE Num(MaxScore + Excess)]

NoFields(d) == [f \in ScoreFields(d) |-> Absent]

AnalysisReplies(d) ==
    {[kind |-> k, fields |-> NoFields(d)] : k \in {"error", "nojson", "badjson"}}
    \cup {[kind |-> "object", fields |-> RawAnalysis(d, t, c)] :
            t \in TopLineSamples, c \in CareerSamples}

\* values a declared score field can have in the parsed model output: absent, not
\* numeric (null, a word), a string parseFloat reads, a number; below, in and above
\* the range
ScoreSamples ==
    {Absent, NonNumeric,
     NumString(MinScore - Excess), NumString(ReadyThreshold), NumString(MaxScore + Excess),
     Num(MinScore - Excess), Num(MinScore), Num(ReadyThreshold), Num(MaxScore),
     Num(MaxScore + Excess)}

\* parsed model outputs in which one declared score field has the value v and every
\* other one the value w
ParsedSamples(d) ==
    {[f \in ScoreFields(d) |-> IF f = g THEN v ELSE w] :
        g \in ScoreFields(d), v \in ScoreSamples, w \in ScoreSamples}

ParsedReplies(d) == {[kind |-> "object", fields |-> a] : a \in ParsedSamples(d)}

(***************************************************************************)
(* External calls                                                          *)
(***************************************************************************)
UploadCall(d) == IF d = "cv" THEN "createFile.cv" ELSE "createFile.coverLetter"
ExtractCall(d) == IF d = "cv" THEN "extract.cv" ELSE "extract.coverLetter"
AnalyzeCall(d) == IF d = "cv" THEN "analyze.cv" ELSE "analyze.coverLetter"
DeleteCall(id) == IF id = "tmp-cv" THEN "deleteFile.tmp-cv" ELSE "deleteFile.tmp-coverLetter"

Calls ==
    {"listDocuments", "getJob", "getEmployer"}
    \cup {UploadCall(d) : d \in Docs} \cup {ExtractCall(d) : d \in Docs}
    \cup {AnalyzeCall(d) : d \in Docs} \cup {DeleteCall(id) : id \in FileIds}

Settled == {"ok", "failed"}

(***************************************************************************)
(* State                                                                   *)
(***************************************************************************)
VARIABLES
    apiKeySet,        \* process.env.GEMINI_API_KEY is set
    bodyKind,         \* shape of req.body
    requestData,      \* the parsed body
    pc,               \* position of the handler
    doc,              \* the document block the handler is in
    uploadedFileIds,  \* let uploadedFileIds = []
    cleanupPromises,  \* ids whose deletion the finally block has started
    callState,        \* per external call: idle, pending, ok, failed
    callCount,        \* per external call: times issued
    fetch,            \* the promises of getTalent and getJob: state, the store's
                      \* reply and the result
    fetchError,       \* rejection Promise.all passes on (the first one)
    talent, job, employer,
    text,             \* cvText / coverLetterText
    modelReply,       \* what the model returned, per kind of call and document
    results,          \* results.cv, results.coverLetter
    outcome,          \* per document: none, analysed, extractFailed, analysisFailed
    combinedInsights,
    response          \* the responses built with res.json, in order

vars ==
    <<apiKeySet, bodyKind, requestData, pc, doc, uploadedFileIds, cleanupPromises,
      callState, callCount, fetch, fetchError, talent, job, employer, text, modelReply,
      results, outcome, combinedInsights, response>>

Idle == [state |-> "idle", reply |-> <<>>, result |-> Ok(<<>>)]
Pending == [state |-> "pending", reply |-> <<>>, result |-> Ok(<<>>)]

NoReplies == [extract |-> [d \in Docs |-> <<>>], analysis |-> [d \in Docs |-> <<>>]]

Init ==
    /\ apiKeySet \in BOOLEAN
    /\ bodyKind \in BodyKinds
    /\ requestData \in (IF bodyKind = "object" THEN Requests ELSE {EmptyRequest})
    /\ pc = "start"
    /\ doc = "cv"
    /\ uploadedFileIds = <<>>
    /\ cleanupPromises = <<>>
    /\ callState = [c \in Calls |-> "idle"]
    /\ callCount = [c \in Calls |-> 0]
    /\ fetch = [talent |-> Idle, job |-> Idle]
    /\ fetchError = <<>>
    /\ talent = <<>>
    /\ job = <<>>
    /\ employer = <<>>
    /\ text = [d \in Docs |-> <<>>]
    /\ modelReply = NoReplies
    /\ results = [d \in Docs |-> <<>>]
    /\ outcome = [d \in Docs |-> "none"]
    /\ combinedInsights = <<>>
    /\ response = <<>>

\* an analyzer called on its own, at the point where the model's answer has been
\* parsed; the handler's variables rest
AnalyzerInit ==
    /\ apiKeySet = TRUE
    /\ bodyKind = "object"
    /\ requestData = EmptyRequest
    /\ pc = "parsed"
    /\ doc \in Docs
    /\ uploadedFileIds = <<>>
    /\ cleanupPromises = <<>>
    /\ callState = [c \in Calls |-> "idle"]
    /\ callCount = [c \in Calls |-> 0]
    /\ fetch = [talent |-> Idle, job |-> Idle]
    /\ fetchError = <<>>
    /\ talent = <<>>
    /\ job = <<>>
    /\ employer = <<>>
    /\ text = [d \in Docs |-> <<>>]
    /\ \E reply \in ParsedReplies(doc) :
         modelReply = [NoReplies EXCEPT !.analysis[doc] = <<reply>>]
    /\ results = [d \in Docs |-> <<>>]
    /\ outcome = [d \in Docs |-> "none"]
    /\ combinedInsights = <<>>
    /\ response = <<>>

(***************************************************************************)
(* Responses                                                               *)
(***************************************************************************)
Failure(status, err) ==
    [success |-> FALSE, statusCode |-> status, error |-> err, analysis |-> <<>>,
     jobContext |-> <<>>, documentsAnalyzed |-> <<>>]

\* the outer catch
UnexpectedFailure(err) == Failure(500, <<"Analysis failed">> \o err)

\* variant: a document failure is reported as a client error
DocumentFailureAs400(d, err) ==
    Failure(400, <<IF d = "cv" THEN "CV processing failed"
                   ELSE "Cover letter processing failed">> \o err)

\* the catch of a document block
DocumentFailure(d, err) ==
    Failure(500, <<IF d = "cv" THEN "CV processing failed"
                   ELSE "Cover letter processing failed">> \o err)

\* value || dflt on a score field
OrDefault(v, dflt) == IF v.kind = "number" /\ v.n # 0 THEN v.n ELSE dflt

\* variant: Math.floor in place of Math.round
OverallScoreFloored(cvScore, clScore) == (cvScore + clScore) \div 2

OverallApplicationScore(cvScore, clScore) == RoundHalf(cvScore + clScore)

Recommendation(cvScore, clScore) ==
    IF cvScore >= ReadyThreshold /\ clScore >= ReadyThreshold THEN MsgReady ELSE MsgImprove

\* variant: a misspelt key (results.coverletter) is always undefined
NeedsCombinedTypo(res) == res["cv"] # <<>> /\ FALSE

\* if (results.cv && results.coverLetter)
NeedsCombinedInsights(res) == res["cv"] # <<>> /\ res["coverLetter"] # <<>>

CombinedInsights(cv, cl) ==
    LET cvScore == OrDefault(cv["overallMatchScore"], 0)
        clScore == OrDefault(cl["overallEffectiveness"], 0)
        cvCareerScore == OrDefault(cv["careerStageAlignment.score"], DefaultCareerScore)
        clCareerScore == OrDefault(cl["careerStageAppropriate.score"], DefaultCareerScore)
    IN  [overallApplicationScore |-> OverallApplicationScore(cvScore, clScore),
         careerStageReadinessScore |-> RoundHalf(cvCareerScore + clCareerScore),
         recommendation |-> Recommendation(cvScore, clScore),
         consistencyScore |-> ConsistencyScore]

\* variant: the placeholder of the analysis prompts (line 308) in the response
CompanyAsInPrompt(emp) ==
    IF emp = <<>> \/ emp[1].name = "" THEN "Company name not available" ELSE emp[1].name

\* employer?.name || 'Company information not available'
Company(emp) ==
    IF emp = <<>> \/ emp[1].name = "" THEN CompanyPlaceholder ELSE emp[1].name

SuccessResponse(res, combined, emp) ==
    [success |-> TRUE, statusCode |-> 200, error |-> <<>>,
     analysis |-> <<[cv |-> res["cv"], coverLetter |-> res["coverLetter"],
                     combinedInsights |-> combined]>>,
     jobContext |-> <<[company |-> Company(emp)]>>,
     documentsAnalyzed |-> <<[cv |-> res["cv"] # <<>>,
                              coverLetter |-> res["coverLetter"] # <<>>]>>]

(***************************************************************************)
(* Validation, up to the first await                                       *)
(***************************************************************************)
\* cvData && cvFileName, coverLetterData && coverLetterFileName
HasDocument(rd, d) == DataOf(rd, d) # 0 /\ NameOf(rd, d) # <<>>

\* variant: the presence check reads the file names instead of the payloads
NoFileNames(rd) == rd.cvFileName = <<>> /\ rd.coverLetterFileName = <<>>

\* !cvData && !coverLetterData
NoDocuments(rd) == rd.cvData = 0 /\ rd.coverLetterData = 0

\* the file validation block: the first validateFile that throws
ValidateFiles(rd) ==
    IF HasDocument(rd, "cv") /\ ValidateFile(rd.cvFileName, rd.cvData).threw
    THEN ValidateFile(rd.cvFileName, rd.cvData)
    ELSE IF HasDocument(rd, "coverLetter")
            /\ ValidateFile(rd.coverLetterFileName, rd.coverLetterData).threw
    THEN ValidateFile(rd.coverLetterFileName, rd.coverLetterData)
    ELSE Ok(<<>>)

\* the response the handler returns before any await, if any
EarlyResponse(key, kind, rd) ==
    IF ~key THEN <<Failure(500, MsgConfig)>>
    ELSE IF kind \in {"empty", "malformed"} THEN <<Failure(400, MsgInvalidJson)>>
    ELSE IF kind = "null"
    THEN <<UnexpectedFailure(<<"Cannot destructure property of null">>)>>
    ELSE IF ~rd.talentId \/ ~rd.jobId THEN <<Failure(400, MsgMissingParams)>>
    ELSE IF NoDocuments(rd) THEN <<Failure(400, MsgNoDocuments)>>
    ELSE IF ValidateFiles(rd).threw THEN <<Failure(400, ValidateFiles(rd).error)>>
    ELSE <<>>

(***************************************************************************)
(* Actions                                                                 *)
(***************************************************************************)
Issued(state, cs) == [c \in Calls |-> IF c \in cs THEN "pending" ELSE state[c]]
Counted(count, cs) == [c \in Calls |-> IF c \in cs THEN count[c] + 1 ELSE count[c]]
SettledAs(reply) == IF reply = "ok" THEN "ok" ELSE "failed"

reqVars == <<apiKeySet, bodyKind, requestData>>

\* entry of the handler to Promise.all([getTalent, getJob]), or to an early return
Start ==
    /\ pc = "start"
    /\ LET early == EarlyResponse(apiKeySet, bodyKind, requestData)
       IN  IF early # <<>>
           THEN /\ response' = Append(response, early[1])
                /\ pc' = "finally"
                /\ UNCHANGED <<callState, callCount, fetch>>
           ELSE /\ callState' = Issued(callState, {"listDocuments", "getJob"})
                /\ callCount' = Counted(callCount, {"listDocuments", "getJob"})
                /\ fetch' = [talent |-> Pending, job |-> Pending]
                /\ pc' = "awaitContext"
                /\ UNCHANGED response
    /\ UNCHANGED <<reqVars, modelReply, doc, uploadedFileIds, cleanupPromises, fetchError, talent,
                   job, employer, text, results, outcome, combinedInsights>>

\* databases.listDocuments settles and getTalent finishes
TalentSettles ==
    /\ callState["listDocuments"] = "pending"
    /\ \E reply \in TalentReplies :
         LET r == GetTalent(reply)
         IN  /\ callState' = [callState EXCEPT
                                !["listDocuments"] = IF reply = "error" THEN "failed" ELSE "ok"]
             /\ fetch' = [fetch EXCEPT
                            !.talent = [state |-> IF r.threw THEN "rejected" ELSE "fulfilled",
                                        reply |-> <<reply>>, result |-> r]]
             /\ fetchError' = IF r.threw /\ fetchError = <<>> THEN <<r.error>> ELSE fetchError
    /\ UNCHANGED <<reqVars, modelReply, pc, doc, uploadedFileIds, cleanupPromises, callCount, talent,
                   job, employer, text, results, outcome, combinedInsights, response>>

\* databases.getDocument (job) settles and getJob finishes
JobSettles ==
    /\ callState["getJob"] = "pending"
    /\ \E reply \in JobReplies :
         LET r == GetJob(reply)
         IN  /\ callState' = [callState EXCEPT !["getJob"] = SettledAs(reply.kind)]
             /\ fetch' = [fetch EXCEPT
                            !.job = [state |-> IF r.threw THEN "rejected" ELSE "fulfilled",
                                     reply |-> <<reply>>, result |-> r]]
             /\ fetchError' = IF r.threw /\ fetchError = <<>> THEN <<r.error>> ELSE fetchError
    /\ UNCHANGED <<reqVars, modelReply, pc, doc, uploadedFileIds, cleanupPromises, callCount, talent,
                   job, employer, text, results, outcome, combinedInsights, response>>

\* variant: the handler goes on as soon as the job is there
ContextReadyJobOnly(f) ==
    f.job.state = "fulfilled"

\* Promise.all([getTalent, getJob]) is fulfilled when both promises are
ContextReady(f) ==
    f.talent.state = "fulfilled" /\ f.job.state = "fulfilled"

\* variant: the catch of the context fetch responds without return, so the handler
\* goes on to read job.employer
ContinueAfterContextFailure(err) ==
    "employer"

\* the catch of the context fetch returns the 404 response, so the handler goes on to
\* the finally block
AfterContextFailure(err) ==
    "finally"

\* Promise.all settles: rejected by the first rejection, fulfilled when both are
ContextJoin ==
    /\ pc = "awaitContext"
    /\ \/ fetchError # <<>>
       \/ ContextReady(fetch)
    /\ IF fetchError # <<>>
       THEN /\ response' = Append(response, Failure(404, fetchError[1]))
            /\ pc' = AfterContextFailure(fetchError[1])
            /\ UNCHANGED <<talent, job>>
       ELSE /\ talent' = fetch.talent.result.value
            /\ job' = fetch.job.result.value
            /\ pc' = "employer"
            /\ UNCHANGED response
    /\ UNCHANGED <<reqVars, modelReply, doc, uploadedFileIds, cleanupPromises, callState, callCount,
                   fetch, fetchError, employer, text, results, outcome, combinedInsights>>

MsgUndefined == <<"Cannot read properties of undefined">>

\* if (job.employer) employer = await dataFetcher.getEmployer(job.employer), and, with
\* no employer reference, on to the log line that reads talent.fullname
FetchEmployer ==
    /\ pc = "employer"
    /\ IF job = <<>>
       THEN /\ response' = Append(response, UnexpectedFailure(MsgUndefined))
            /\ pc' = "finally"
            /\ UNCHANGED <<callState, callCount>>
       ELSE IF job[1].employer # <<>>
       THEN /\ callState' = Issued(callState, {"getEmployer"})
            /\ callCount' = Counted(callCount, {"getEmployer"})
            /\ pc' = "awaitEmployer"
            /\ UNCHANGED response
       ELSE IF talent = <<>>
       THEN /\ response' = Append(response, UnexpectedFailure(MsgUndefined))
            /\ pc' = "finally"
            /\ UNCHANGED <<callState, callCount>>
       ELSE /\ pc' = "process"
            /\ UNCHANGED <<callState, callCount, response>>
    /\ UNCHANGED <<reqVars, modelReply, doc, uploadedFileIds, cleanupPromises, fetch, fetchError,
                   talent, job, employer, text, results, outcome, combinedInsights>>

\* the employer lookup settles, getEmployer returns, and on to the log line that reads
\* talent.fullname
EmployerSettles ==
    /\ pc = "awaitEmployer"
    /\ callState["getEmployer"] = "pending"
    /\ \E reply \in EmployerReplies :
         LET r == GetEmployer(reply)
         IN  /\ callState' = [callState EXCEPT
                                !["getEmployer"] = IF reply = "error" THEN "failed" ELSE "ok"]
             /\ IF r.threw \/ talent = <<>>
                THEN /\ response' = Append(response,
                                           UnexpectedFailure(IF r.threw THEN r.error
                                                             ELSE MsgUndefined))
                     /\ pc' = "finally"
                     /\ employer' = IF r.threw THEN employer ELSE r.value
                ELSE /\ employer' = r.value
                     /\ pc' = "process"
                     /\ UNCHANGED response
    /\ UNCHANGED <<reqVars, modelReply, doc, uploadedFileIds, cleanupPromises, callCount, fetch,
                   fetchError, talent, job, text, results, outcome, combinedInsights>>

\* if (cvData && cvFileName) { ... uploadTemporaryFile, or on to the next block
ProcessDocument ==
    /\ pc = "process"
    /\ IF HasDocument(requestData, doc)
       THEN /\ callState' = Issued(callState, {UploadCall(doc)})
            /\ callCount' = Counted(callCount, {UploadCall(doc)})
            /\ pc' = "awaitUpload"
            /\ UNCHANGED doc
       ELSE /\ pc' = IF doc = "cv" THEN "process" ELSE "respond"
            /\ doc' = "coverLetter"
            /\ UNCHANGED <<callState, callCount>>
    /\ UNCHANGED <<reqVars, modelReply, uploadedFileIds, cleanupPromises, fetch, fetchError, talent,
                   job, employer, text, results, outcome, combinedInsights, response>>

\* variant: the catch of a document block starts the block again
RetryAfterFailure(d) ==
    "process"

\* the catch of a document block returns the 500 response, so the handler goes on
\* to the finally block
AfterFailure(d) ==
    "finally"

\* storage.createFile settles, uploadTemporaryFile returns, the id is recorded, and
\* extractText calls the model
UploadSettles ==
    /\ pc = "awaitUpload"
    /\ callState[UploadCall(doc)] = "pending"
    /\ \E reply \in StoreReplies :
         LET r == UploadTemporaryFile(doc, reply)
             settled == [callState EXCEPT ![UploadCall(doc)] = SettledAs(reply)]
         IN  IF r.threw
             THEN /\ callState' = settled
                  /\ response' = Append(response, DocumentFailure(doc, r.error))
                  /\ outcome' = [outcome EXCEPT ![doc] = "uploadFailed"]
                  /\ pc' = AfterFailure(doc)
                  /\ UNCHANGED <<callCount, uploadedFileIds>>
             ELSE /\ uploadedFileIds' =
                        IF r.value # <<>> THEN Append(uploadedFileIds, r.value[1])
                        ELSE uploadedFileIds
                  /\ callState' = Issued(settled, {ExtractCall(doc)})
                  /\ callCount' = Counted(callCount, {ExtractCall(doc)})
                  /\ pc' = "awaitExtract"
                  /\ UNCHANGED <<response, outcome>>
    /\ UNCHANGED <<reqVars, modelReply, doc, cleanupPromises, fetch, fetchError, talent, job, employer,
                   text, results, combinedInsights>>

\* the extraction model call settles, extractText returns or throws, and the analyzer
\* calls the model
ExtractSettles ==
    /\ pc = "awaitExtract"
    /\ callState[ExtractCall(doc)] = "pending"
    /\ \E reply \in ExtractReplies :
         LET r == ExtractText(doc, reply)
             settled == [callState EXCEPT
                           ![ExtractCall(doc)] = IF reply.kind = "error" THEN "failed" ELSE "ok"]
         IN  /\ modelReply' = [modelReply EXCEPT !.extract[doc] = <<reply>>]
             /\ IF r.threw
                THEN /\ callState' = settled
                     /\ response' = Append(response, DocumentFailure(doc, r.error))
                     /\ outcome' = [outcome EXCEPT ![doc] = "extractFailed"]
                     /\ pc' = AfterFailure(doc)
                     /\ UNCHANGED <<callCount, text>>
                ELSE /\ text' = [text EXCEPT ![doc] = r.value]
                     /\ callState' = Issued(settled, {AnalyzeCall(doc)})
                     /\ callCount' = Counted(callCount, {AnalyzeCall(doc)})
                     /\ pc' = "awaitAnalysis"
                     /\ UNCHANGED <<response, outcome>>
    /\ UNCHANGED <<reqVars, doc, uploadedFileIds, cleanupPromises, fetch, fetchError,
                   talent, job, employer, results, combinedInsights>>

\* the analysis model call settles, the analyzer returns or throws, and on to the next
\* block
AnalysisSettles ==
    /\ pc = "awaitAnalysis"
    /\ callState[AnalyzeCall(doc)] = "pending"
    /\ \E reply \in AnalysisReplies(doc) :
         LET r == IF doc = "cv" THEN AnalyzeCVForJob(reply)
                  ELSE AnalyzeCoverLetterForJob(reply)
         IN  /\ modelReply' = [modelReply EXCEPT !.analysis[doc] = <<reply>>]
             /\ callState' = [callState EXCEPT
                                ![AnalyzeCall(doc)] =
                                    IF reply.kind = "error" THEN "failed" ELSE "ok"]
             /\ IF r.threw
                THEN /\ response' = Append(response, DocumentFailure(doc, r.error))
                     /\ outcome' = [outcome EXCEPT ![doc] = "analysisFailed"]
                     /\ pc' = AfterFailure(doc)
                     /\ UNCHANGED <<results, doc>>
                ELSE /\ results' = [results EXCEPT ![doc] = r.value]
                     /\ outcome' = [outcome EXCEPT ![doc] = "analysed"]
                     /\ pc' = IF doc = "cv" THEN "process" ELSE "respond"
                     /\ doc' = "coverLetter"
                     /\ UNCHANGED response
    /\ UNCHANGED <<reqVars, uploadedFileIds, cleanupPromises, callCount, fetch, fetchError,
                   talent, job, employer, text, combinedInsights>>

\* combined insights, the success response, return res.json(response)
Respond ==
    /\ pc = "respond"
    /\ combinedInsights' =
           IF NeedsCombinedInsights(results)
           THEN <<CombinedInsights(results["cv"][1], results["coverLetter"][1])>>
           ELSE <<>>
    /\ response' = Append(response, SuccessResponse(results, combinedInsights', employer))
    /\ pc' = "finally"
    /\ UNCHANGED <<reqVars, modelReply, doc, uploadedFileIds, cleanupPromises, callState, callCount,
                   fetch, fetchError, talent, job, employer, text, results, outcome>>

\* variant: only the first recorded id is swept
CleanupFirstOnly(ids) == SubSeq(ids, 1, 1)

\* uploadedFileIds.map(async (fileId) => ...): the ids whose deletion is started
CleanupTargets(ids) == ids

\* variant: the sweep is over as soon as one deletion has settled (Promise.race)
CleanupRaced(tasks, state) ==
    \E i \in 1..Len(tasks) : state[DeleteCall(tasks[i])] \in Settled

\* await Promise.allSettled(cleanupPromises): every started deletion has settled
CleanupSettled(tasks, state) ==
    \A i \in 1..Len(tasks) : state[DeleteCall(tasks[i])] \in Settled

Range(seq) == {seq[i] : i \in 1..Len(seq)}

\* the finally block: start every deletion, or finish at once when nothing was recorded
Finally ==
    /\ pc = "finally"
    /\ IF Len(uploadedFileIds) > 0
       THEN LET tasks == CleanupTargets(uploadedFileIds)
                cs == {DeleteCall(id) : id \in Range(tasks)}
            IN  /\ cleanupPromises' = tasks
                /\ callState' = Issued(callState, cs)
                /\ callCount' = Counted(callCount, cs)
                /\ pc' = IF CleanupSettled(tasks, callState') THEN "done" ELSE "awaitCleanup"
       ELSE /\ pc' = "done"
            /\ UNCHANGED <<cleanupPromises, callState, callCount>>
    /\ UNCHANGED <<reqVars, modelReply, doc, uploadedFileIds, fetch, fetchError, talent, job, employer,
                   text, results, outcome, combinedInsights, response>>

\* one storage.deleteFile settles; its failure is caught and logged; the handler
\* finishes once Promise.allSettled has every outcome
DeleteSettles ==
    /\ \E id \in FileIds, reply \in StoreReplies :
         /\ callState[DeleteCall(id)] = "pending"
         /\ callState' = [callState EXCEPT ![DeleteCall(id)] = SettledAs(reply)]
    /\ pc' = IF pc = "awaitCleanup" /\ CleanupSettled(cleanupPromises, callState')
             THEN "done" ELSE pc
    /\ UNCHANGED <<reqVars, modelReply, doc, uploadedFileIds, cleanupPromises, callCount, fetch,
                   fetchError, talent, job, employer, text, results, outcome,
                   combinedInsights, response>>

Next ==
    \/ Start
    \/ TalentSettles
    \/ JobSettles
    \/ ContextJoin
    \/ FetchEmployer
    \/ EmployerSettles
    \/ ProcessDocument
    \/ UploadSettles
    \/ ExtractSettles
    \/ AnalysisSettles
    \/ Respond
    \/ Finally
    \/ DeleteSettles

Spec == Init /\ [][Next]_vars

\* every external call that is pending eventually settles, and the event loop
\* eventually runs every continuation of the handler that is ready
Settlements ==
    TalentSettles \/ JobSettles \/ EmployerSettles \/ UploadSettles \/ ExtractSettles
        \/ AnalysisSettles \/ DeleteSettles

Continuations == Start \/ ContextJoin \/ FetchEmployer \/ ProcessDocument \/ Respond \/ Finally

Fairness == WF_vars(Settlements) /\ WF_vars(Continuations)

LiveSpec == Spec /\ Fairness

(***************************************************************************)
(* The entry of the handler on requests that carry a CV                    *)
(***************************************************************************)
ValidationInit ==
    /\ apiKeySet = TRUE
    /\ bodyKind = "object"
    /\ requestData \in CvRequests
    /\ pc = "start"
    /\ doc = "cv"
    /\ uploadedFileIds = <<>>
    /\ cleanupPromises = <<>>
    /\ callState = [c \in Calls |-> "idle"]
    /\ callCount = [c \in Calls |-> 0]
    /\ fetch = [talent |-> Idle, job |-> Idle]
    /\ fetchError = <<>>
    /\ talent = <<>>
    /\ job = <<>>
    /\ employer = <<>>
    /\ text = [d \in Docs |-> <<>>]
    /\ modelReply = NoReplies
    /\ results = [d \in Docs |-> <<>>]
    /\ outcome = [d \in Docs |-> "none"]
    /\ combinedInsights = <<>>
    /\ response = <<>>

\* the handler up to its first await: validateFile is called on the CV
ValidationNext == Start

ValidationSpec == ValidationInit /\ [][ValidationNext]_vars

(***************************************************************************)
(* The analyzers on their own                                              *)
(***************************************************************************)
\* analyzeCVForJob normalizes the parsed analysis and returns it
NormalizeCV ==
    /\ pc = "parsed"
    /\ doc = "cv"
    /\ results' = [results EXCEPT !["cv"] = AnalyzeCVForJob(modelReply.analysis["cv"][1]).value]
    /\ pc' = "returned"
    /\ UNCHANGED <<reqVars, modelReply, doc, uploadedFileIds, cleanupPromises, callState,
                   callCount, fetch, fetchError, talent, job, employer, text, outcome,
                   combinedInsights, response>>

\* analyzeCoverLetterForJob normalizes the parsed analysis and returns it
NormalizeCoverLetter ==
    /\ pc = "parsed"
    /\ doc = "coverLetter"
    /\ results' = [results EXCEPT
                     !["coverLetter"] =
                         AnalyzeCoverLetterForJob(modelReply.analysis["coverLetter"][1]).value]
    /\ pc' = "returned"
    /\ UNCHANGED <<reqVars, modelReply, doc, uploadedFileIds, cleanupPromises, callState,
                   callCount, fetch, fetchError, talent, job, employer, text, outcome,
                   combinedInsights, response>>

AnalyzerNext ==
    \/ NormalizeCV
    \/ NormalizeCoverLetter

AnalyzerSpec == AnalyzerInit /\ [][AnalyzerNext]_vars

(***************************************************************************)
(* Properties                                                              *)
(***************************************************************************)
Finished == pc = "done"
Recorded == Range(uploadedFileIds)
AllCalls == Calls
FailedOutcomes == {"uploadFailed", "extractFailed", "analysisFailed"}
BothAnalysed == outcome["cv"] = "analysed" /\ outcome["coverLetter"] = "analysed"

\* C1: the handler does not finish, on any exit path, before a deletion has been
\* attempted and has settled for every id recorded in uploadedFileIds.
C1_CleanupSettlesBeforeFinish ==
    Finished =>
        \A id \in Recorded :
            callCount[DeleteCall(id)] >= 1 /\ callState[DeleteCall(id)] \in Settled

\* a failed request (500 for the cover letter) finished with both recorded ids swept
C1_Witness ==
    /\ Finished
    /\ Len(uploadedFileIds) = 2
    /\ response[1].statusCode = 500
    /\ callState[DeleteCall("tmp-cv")] = "failed"
    /\ callState[DeleteCall("tmp-coverLetter")] = "ok"

\* C2: a deletion that fails for one recorded id never prevents the deletion attempt
\* for any other recorded id, and the sweep never changes the response being returned.
C2_DeletionFailureIsolated ==
    /\ [](\A id \in Recorded :
            callState[DeleteCall(id)] = "failed" =>
                \A other \in Recorded : callCount[DeleteCall(other)] >= 1)
    /\ [][(pc \in {"finally", "awaitCleanup"}) => (response' = response)]_vars

\* the first deletion failed, the second was made and succeeded, the response is the
\* success response
C2_Witness ==
    /\ Finished
    /\ callState[DeleteCall("tmp-cv")] = "failed"
    /\ callState[DeleteCall("tmp-coverLetter")] = "ok"
    /\ Len(response) = 1
    /\ response[1].success

NeitherDocument == requestData.cvData = 0 /\ requestData.coverLetterData = 0
NoExternalCall == \A c \in AllCalls : callCount[c] = 0

\* C3 as claimed: a request with neither cvData nor coverLetterData is answered with
\* status 400 and makes no external call.
C3_Original ==
    NeitherDocument =>
        /\ NoExternalCall
        /\ Finished => Len(response) = 1 /\ ~response[1].success
                       /\ response[1].statusCode = 400

\* C3 amended: a request with neither cvData nor coverLetterData is answered with a
\* failure response and makes no external call at any point; the status is 400, except
\* 500 when the model credential is not configured or the body is the JSON literal null.
C3_NoDocumentsNoCalls ==
    NeitherDocument =>
        /\ NoExternalCall
        /\ Finished => /\ Len(response) = 1
                       /\ ~response[1].success
                       /\ response[1].statusCode =
                            IF apiKeySet /\ bodyKind # "null" THEN 400 ELSE 500

\* an otherwise complete request without documents, rejected at the presence check
C3_Witness ==
    /\ Finished
    /\ apiKeySet /\ bodyKind = "object"
    /\ requestData.talentId /\ requestData.jobId
    /\ NeitherDocument
    /\ requestData.cvFileName # <<>>
    /\ response[1].statusCode = 400
    /\ response[1].error = MsgNoDocuments

\* the document d of the request has a payload, and its extension is not allowed or its
\* computed size is above the ceiling
InvalidDocument(d) ==
    /\ DataOf(requestData, d) # 0
    /\ \/ FileSizeBytes(DataOf(requestData, d)) > MaxFileSize
       \/ /\ NameOf(requestData, d) # <<>>
          /\ FileExtension(NameOf(requestData, d)) \notin AllowedExtensions

\* C4: a request in which either supplied document has an unsupported extension or
\* exceeds the size ceiling ends with status 400 before any lookup, upload or model
\* call, even when the other document is valid; stated for the requests served with
\* the credential configured.
C4_FailFastValidation ==
    (apiKeySet /\ \E d \in Docs : InvalidDocument(d)) =>
        /\ NoExternalCall
        /\ Finished => ~response[1].success /\ response[1].statusCode = 400

\* C5: a request that supplies cvData without cvFileName, or coverLetterData without
\* coverLetterFileName, is rejected with a failure response of status 400; stated for
\* the requests served with the credential configured and whose candidate and job
\* lookups, if made, do not fail.
C5_FileNameRequired ==
    (/\ apiKeySet
     /\ Finished
     /\ fetch.talent.state # "rejected" /\ fetch.job.state # "rejected"
     /\ \E d \in Docs : DataOf(requestData, d) # 0 /\ NameOf(requestData, d) = <<>>)
    => ~response[1].success /\ response[1].statusCode = 400

TalentLookupFailed ==
    fetch.talent.reply # <<>> /\ fetch.talent.reply[1] \in {"empty", "error"}
JobLookupFailed == fetch.job.reply # <<>> /\ fetch.job.reply[1].kind = "error"
DocumentCalls ==
    {UploadCall(d) : d \in Docs} \cup {ExtractCall(d) : d \in Docs}
    \cup {AnalyzeCall(d) : d \in Docs}

\* C6: if the candidate lookup returns zero matches or fails, or the job lookup fails,
\* the request ends with a failure response of status 404, and no employer lookup,
\* upload, extraction or analysis is ever started.
C6_LookupFailureIs404 ==
    (TalentLookupFailed \/ JobLookupFailed) =>
        /\ \A c \in {"getEmployer"} \cup DocumentCalls : callCount[c] = 0
        /\ Finished => /\ Len(response) = 1
                       /\ ~response[1].success
                       /\ response[1].statusCode = 404

\* the candidate query returned zero matches while the job, with an employer, was found
C6_Witness ==
    /\ Finished
    /\ fetch.talent.reply = <<"empty">>
    /\ fetch.job.reply # <<>> /\ fetch.job.reply[1].kind = "ok"
    /\ fetch.job.reply[1].employer # <<>>
    /\ response[1].statusCode = 404

\* C7: a failure of the employer lookup never aborts the pipeline: getEmployer yields
\* null, processing continues as without employer, and the request succeeds unless a
\* document step fails.
C7_EmployerFailureAbsorbed ==
    callState["getEmployer"] = "failed" =>
        /\ employer = <<>>
        /\ Finished =>
            /\ response[1].success <=> \A d \in Docs : outcome[d] \notin FailedOutcomes
            /\ response[1].success => response[1].jobContext[1].company = CompanyPlaceholder

\* the employer lookup failed and the request still ended in a success response
C7_Witness ==
    /\ Finished
    /\ callState["getEmployer"] = "failed"
    /\ response[1].success
    /\ outcome["cv"] = "analysed"

StepLabel(d) ==
    IF outcome[d] = "extractFailed" THEN "Failed to extract text from" ELSE AnalyzeLabel(d)

\* C8: whenever extraction or analysis fails for a supplied document, the request ends
\* with a failure response of status 500 that carries that step's error and no
\* analysis payload, even if the other document was already analysed.
C8_DocumentFailureIs500 ==
    \A d \in Docs :
        outcome[d] \in {"extractFailed", "analysisFailed"} =>
            /\ Len(response) = 1
            /\ ~response[1].success
            /\ response[1].statusCode = 500
            /\ response[1].analysis = <<>>
            /\ response[1].error[1] =
                 (IF d = "cv" THEN "CV processing failed" ELSE "Cover letter processing failed")
            /\ response[1].error[2] = StepLabel(d)
            /\ pc \in {"finally", "awaitCleanup", "done"}

\* the CV was analysed, then the analysis of the cover letter failed
C8_Witness ==
    /\ Finished
    /\ outcome["cv"] = "analysed"
    /\ outcome["coverLetter"] = "analysisFailed"
    /\ results["cv"] # <<>>
    /\ response[1].statusCode = 500

HasCombined(r) == r.analysis # <<>> /\ r.analysis[1].combinedInsights # <<>>

\* C9: combinedInsights is non-null in the response if and only if both analyses
\* succeeded in the request; it is never computed when only one document was analysed.
C9_CombinedIffBoth ==
    /\ combinedInsights # <<>> => BothAnalysed
    /\ Finished => (HasCombined(response[1]) <=> BothAnalysed)

\* both documents analysed and the response carries combined insights
C9_Witness ==
    /\ Finished
    /\ BothAnalysed
    /\ HasCombined(response[1])

\* C10: when both analyses succeed, overallApplicationScore is the mean of the two
\* top-line scores rounded to the nearest integer (halves up), and the recommendation
\* is the "ready" variant exactly when both top-line scores are >= 70, otherwise the
\* "needs improvement" variant.
C10_OverallScoreAndRecommendation ==
    (Finished /\ BothAnalysed) =>
        LET a == response[1].analysis[1]
            cv == a.cv[1]["overallMatchScore"]
            cl == a.coverLetter[1]["overallEffectiveness"]
            ci == a.combinedInsights[1]
        IN  (cv.kind = "number" /\ cl.kind = "number") =>
                /\ 2 * ci.overallApplicationScore \in {cv.n + cl.n, cv.n + cl.n + 1}
                /\ ci.recommendation = (IF cv.n >= 70 /\ cl.n >= 70 THEN MsgReady
                                        ELSE MsgImprove)

\* top-line scores 70 and 69: the mean 69.5 rounds to 70, one score is below 70
C10_Witness ==
    /\ Finished
    /\ BothAnalysed
    /\ response[1].analysis[1].cv[1]["overallMatchScore"] = Num(70)
    /\ response[1].analysis[1].coverLetter[1]["overallEffectiveness"] = Num(69)
    /\ response[1].analysis[1].combinedInsights[1].overallApplicationScore = 70
    /\ response[1].analysis[1].combinedInsights[1].recommendation = MsgImprove

\* C11: when both analyses succeed, careerStageReadinessScore is the mean of the CV and
\* the cover-letter career-stage sub-scores rounded to the nearest integer, where a
\* sub-score is replaced by 50 only when it is missing; a sub-score that is present,
\* 0 included, is averaged as it is.
C11_CareerStageReadiness ==
    (Finished /\ BothAnalysed) =>
        LET a == response[1].analysis[1]
            cv == a.cv[1]["careerStageAlignment.score"]
            cl == a.coverLetter[1]["careerStageAppropriate.score"]
            cvCareer == IF cv.kind = "absent" THEN 50 ELSE cv.n
            clCareer == IF cl.kind = "absent" THEN 50 ELSE cl.n
        IN  2 * a.combinedInsights[1].careerStageReadinessScore
                \in {cvCareer + clCareer, cvCareer + clCareer + 1}

\* the parsed model output an analyzer received and the analysis it returned
Parsed(d) == modelReply.analysis[d][1].fields
Returned(d) == results[d][1]
AnalyzerReturned(d) == pc = "returned" /\ doc = d

\* C12: in the AnalysisResult an analyzer returns, every declared numeric score field
\* that is present is a number in [0, 100], whatever finite number the model gave,
\* negative numbers and numbers above 100 included.
C12_ScoresInRange ==
    \A d \in Docs :
        AnalyzerReturned(d) =>
            \A f \in ScoreFields(d) :
                Returned(d)[f].kind # "absent" =>
                    /\ Returned(d)[f].kind = "number"
                    /\ Returned(d)[f].n >= 0
                    /\ Returned(d)[f].n <= 100
                    /\ (Parsed(d)[f].kind = "number" /\ Parsed(d)[f].n \in 0..100)
                          => Returned(d)[f] = Parsed(d)[f]

\* a CV analysis with one score below the range and the others above it
C12_Witness ==
    /\ AnalyzerReturned("cv")
    /\ Parsed("cv")["overallMatchScore"] = Num(-5)
    /\ Parsed("cv")["applicationReadiness"] = Num(105)
    /\ Returned("cv")["overallMatchScore"] = Num(0)
    /\ Returned("cv")["applicationReadiness"] = Num(100)

\* C19: a declared numeric score field that is absent from the parsed model output is
\* skipped by normalization: it is still absent in the AnalysisResult the analyzer
\* returns, never defaulted to a number.
C19_AbsentStaysAbsent ==
    \A d \in Docs :
        AnalyzerReturned(d) =>
            \A f \in ScoreFields(d) :
                Parsed(d)[f].kind = "absent" => Returned(d)[f].kind = "absent"

\* a cover-letter analysis without its top-line score, the other scores being there
C19_Witness ==
    /\ AnalyzerReturned("coverLetter")
    /\ Parsed("coverLetter")["overallEffectiveness"] = Absent
    /\ Returned("coverLetter")["overallEffectiveness"] = Absent
    /\ Returned("coverLetter")["careerStageAppropriate.score"] = Num(70)

\* C20: a declared numeric score field that is present with a non-numeric value (null,
\* a string that is not a number) is left untouched by normalization and not coerced
\* to 0, as a missing field is.
C20_Original ==
    \A d \in Docs :
        AnalyzerReturned(d) =>
            \A f \in ScoreFields(d) :
                Parsed(d)[f].kind = "other" => Returned(d)[f] = Parsed(d)[f]

\* C20, amended: a declared numeric score field that is present with a value that is
\* not a number is replaced by a number: by 0 when parseFloat reads no number in it
\* (null, a word), by the clamped number when it is a string parseFloat reads.
C20_NonNumericCoerced ==
    \A d \in Docs :
        AnalyzerReturned(d) =>
            \A f \in ScoreFields(d) :
                /\ Parsed(d)[f].kind = "other" => Returned(d)[f] = Num(0)
                /\ Parsed(d)[f].kind = "numstring" =>
                       Returned(d)[f] = Num(Max(0, Min(100, Parsed(d)[f].n)))

\* a CV analysis whose top-line score is not numeric and whose other scores are
\* strings holding 70
C20_Witness ==
    /\ AnalyzerReturned("cv")
    /\ Parsed("cv")["overallMatchScore"] = NonNumeric
    /\ Parsed("cv")["applicationReadiness"] = NumString(70)
    /\ Returned("cv")["overallMatchScore"] = Num(0)
    /\ Returned("cv")["applicationReadiness"] = Num(70)

\* C13: extraction of a document fails whenever the model returns an empty text or a
\* text whose trimmed length is below 50, and then the analysis model call for that
\* document is never made; when the trimmed length is at least 50 the text is returned
\* as the model gave it, untrimmed, and goes to the analysis.
C13_ExtractionThreshold ==
    \A d \in Docs :
        (modelReply.extract[d] # <<>> /\ modelReply.extract[d][1].kind = "text") =>
            LET t == modelReply.extract[d][1].text
            IN  IF t.pad + t.body = 0 \/ t.body < 50
                THEN /\ outcome[d] = "extractFailed"
                     /\ text[d] = <<>>
                     /\ callCount[AnalyzeCall(d)] = 0
                     /\ response # <<>> /\ ~response[1].success
                ELSE /\ text[d] = <<t>>
                     /\ callCount[AnalyzeCall(d)] = 1

\* the CV text has 69 characters of which 49 remain after trimming: the request has
\* finished without an analysis call for the CV
C13_Witness ==
    /\ Finished
    /\ modelReply.extract["cv"] = <<[kind |-> "text", text |-> [pad |-> PadLen, body |-> 49]]>>
    /\ outcome["cv"] = "extractFailed"
    /\ callCount[AnalyzeCall("cv")] = 0

\* the job was found and has no employer reference
JobWithoutEmployer ==
    /\ fetch.job.reply # <<>>
    /\ fetch.job.reply[1].kind = "ok"
    /\ fetch.job.reply[1].employer = <<>>

\* C14: when the job has no employer reference, no employer lookup is issued, and
\* jobContext.company of a success response is the fixed placeholder
\* "Company information not available".
C14_NoEmployerReference ==
    JobWithoutEmployer =>
        /\ callCount["getEmployer"] = 0
        /\ callState["getEmployer"] = "idle"
        /\ employer = <<>>
        /\ (response # <<>> /\ response[1].success) =>
               response[1].jobContext[1].company = "Company information not available"

\* a request for a job without employer reference has ended in a success response
C14_Witness ==
    /\ Finished
    /\ JobWithoutEmployer
    /\ response[1].success
    /\ response[1].jobContext[1].company = "Company information not available"
    /\ callCount["getEmployer"] = 0

\* the extraction or the analysis of document d has failed, told from what the model
\* returned
StepFailed(d) ==
    \/ /\ modelReply.extract[d] # <<>>
       /\ \/ modelReply.extract[d][1].kind = "error"
          \/ modelReply.extract[d][1].text.pad + modelReply.extract[d][1].text.body = 0
          \/ modelReply.extract[d][1].text.body < 50
    \/ /\ modelReply.analysis[d] # <<>>
       /\ modelReply.analysis[d][1].kind # "object"

\* C15: the two documents are processed one after the other, the CV first: when the
\* processing of the CV fails, the request is aborted and no step of the cover letter
\* (upload, extraction, analysis) is ever started.
C15_NoCoverLetterAfterCvFailure ==
    StepFailed("cv") =>
        /\ callCount[UploadCall("coverLetter")] = 0
        /\ callCount[ExtractCall("coverLetter")] = 0
        /\ callCount[AnalyzeCall("coverLetter")] = 0
        /\ text["coverLetter"] = <<>>
        /\ results["coverLetter"] = <<>>
        /\ pc \in {"finally", "awaitCleanup", "done"}

\* both documents were supplied, the CV analysis returned text that is not JSON, and
\* the request has finished without any cover-letter call
C15_Witness ==
    /\ Finished
    /\ HasDocument(requestData, "coverLetter")
    /\ modelReply.analysis["cv"] # <<>>
    /\ modelReply.analysis["cv"][1].kind = "badjson"
    /\ callCount[UploadCall("coverLetter")] = 0
    /\ ~response[1].success

\* C16: a failure of the temporary upload of a document is not fatal: no id is recorded
\* for it, extraction (and, the text being sufficient, analysis) still proceeds, and the
\* request ends in success unless an extraction or analysis fails; an id is recorded
\* only for an upload that succeeded.
C16_UploadFailureNotFatal ==
    \A d \in Docs :
        /\ callState[UploadCall(d)] = "failed" =>
               /\ FileId(d) \notin Recorded
               /\ callCount[ExtractCall(d)] = 1
               /\ callState[ExtractCall(d)] = "ok" /\ ~StepFailed(d)
                      => callCount[AnalyzeCall(d)] = 1
               /\ Finished =>
                      (response[1].success <=> \A e \in Docs : ~StepFailed(e))
        /\ FileId(d) \in Recorded => callState[UploadCall(d)] = "ok"

\* the upload of the CV failed, nothing was recorded, and the request has ended in a
\* success response carrying the CV analysis
C16_Witness ==
    /\ Finished
    /\ callState[UploadCall("cv")] = "failed"
    /\ Recorded = {}
    /\ response[1].success
    /\ response[1].analysis[1].cv # <<>>

\* a call that follows the context fetch has been issued
LaterCallIssued ==
    \/ callCount["getEmployer"] > 0
    \/ \E d \in Docs :
          callCount[UploadCall(d)] + callCount[ExtractCall(d)] + callCount[AnalyzeCall(d)] > 0

\* C17: the candidate lookup and the job lookup are issued together and joined: in
\* every interleaving of their completions, the employer lookup and every upload,
\* extraction and analysis start only after both lookups have completed successfully,
\* and the employer lookup only once the job, with its employer reference, is there.
C17_ContextJoinedFirst ==
    /\ callCount["listDocuments"] = callCount["getJob"]
    /\ LaterCallIssued =>
           /\ fetch.talent.state = "fulfilled"
           /\ fetch.job.state = "fulfilled"
           /\ fetch.talent.reply[1] = "found"
           /\ fetch.job.reply[1].kind = "ok"
           /\ talent # <<>>
           /\ job # <<>>
    /\ callCount["getEmployer"] > 0 =>
           /\ job # <<>>
           /\ job[1].employer = fetch.job.reply[1].employer
           /\ job[1].employer # <<>>

\* both lookups have completed and the employer lookup is under way
C17_Witness ==
    /\ callState["getEmployer"] = "pending"
    /\ fetch.talent.state = "fulfilled"
    /\ fetch.job.state = "fulfilled"
    /\ pc = "awaitEmployer"

\* C18: no step is retried: the candidate, job and employer lookups are each issued at
\* most once per request, the upload, the extraction call and the analysis call at most
\* once per supplied document, and each recorded temporary id gets at most one deletion
\* attempt.
C18_NoRetry ==
    /\ \A c \in {"listDocuments", "getJob", "getEmployer"} : callCount[c] <= 1
    /\ \A d \in Docs :
          /\ callCount[UploadCall(d)] <= 1
          /\ callCount[ExtractCall(d)] <= 1
          /\ callCount[AnalyzeCall(d)] <= 1
          /\ callCount[UploadCall(d)] > 0 => HasDocument(requestData, d)
    /\ \A id \in FileIds :
          /\ callCount[DeleteCall(id)] <= 1
          /\ Cardinality({i \in DOMAIN uploadedFileIds : uploadedFileIds[i] = id}) <= 1
          /\ Cardinality({i \in DOMAIN cleanupPromises : cleanupPromises[i] = id}) <= 1
          /\ callCount[DeleteCall(id)] > 0 => id \in Recorded

\* the extraction of the CV and the deletion of its temporary file have both failed,
\* and each was attempted once
C18_Witness ==
    /\ Finished
    /\ callState[ExtractCall("cv")] = "failed"
    /\ callCount[ExtractCall("cv")] = 1
    /\ callState[DeleteCall("tmp-cv")] = "failed"
    /\ callCount[DeleteCall("tmp-cv")] = 1

\* the file name has a '.', and what follows the last one is, in lower case, one of
\* pdf, jpg, jpeg, png, doc, docx, txt
ExtensionAllowed(fileName) ==
    /\ LastIndexOf(fileName, ".") >= 0
    /\ ToLowerCase(SubSeq(fileName, LastIndexOf(fileName, ".") + 2, Len(fileName)))
           \in {Tail(e) : e \in AllowedExtensions}

\* C21: for a non-empty file name and payload, validateFile fails with the
\* unsupported-type error exactly when the lower-case extension after the last '.' is
\* not one of pdf, jpg, jpeg, png, doc, docx, txt; otherwise with the too-large error
\* exactly when ceil(encoded length * 3 / 4) is greater than 5 MiB; otherwise it
\* succeeds (and the handler goes on to the context fetch).
C21_ValidateFile ==
    pc # "start" =>
        IF ~ExtensionAllowed(requestData.cvFileName)
        THEN pc = "finally" /\ response[1].error = MsgUnsupported
        ELSE IF (requestData.cvData * 3 + 3) \div 4 > 5 * 1024 * 1024
        THEN pc = "finally"
             /\ response[1].error = MsgTooLarge((requestData.cvData * 3 + 3) \div 4)
        ELSE pc = "awaitContext" /\ response = <<>>

\* C22: every response with success: true reports at least one analysed document:
\* analysis.cv or analysis.coverLetter is not null and summary.documentsAnalyzed has a
\* true flag; no request reaches the success response having processed no document.
C22_SuccessHasDocument ==
    \A i \in DOMAIN response :
        response[i].success =>
            /\ \/ response[i].analysis[1].cv # <<>>
               \/ response[i].analysis[1].coverLetter # <<>>
            /\ \/ response[i].documentsAnalyzed[1].cv
               \/ response[i].documentsAnalyzed[1].coverLetter
            /\ \E d \in Docs : callCount[AnalyzeCall(d)] > 0

\* C23: provided every external call eventually settles, every invocation of the
\* handler eventually finishes, and it emits exactly one response on every path; the
\* response carries a success flag and a statusCode, which is 200 when success is true
\* and one of 400, 404, 500 when it is false.
C23_FinishesWithOneResponse ==
    /\ <>Finished
    /\ [](Len(response) <= 1)
    /\ [](Finished =>
            /\ Len(response) = 1
            /\ response[1].success \in BOOLEAN
            /\ response[1].success => response[1].statusCode = 200
            /\ ~response[1].success => response[1].statusCode \in {400, 404, 500})

\* the job lookup failed, and the handler
\* has finished with the single response 404
C23_Witness ==
    /\ Finished
    /\ Len(response) = 1
    /\ response[1].statusCode = 404
    /\ ~response[1].success
    /\ fetch.job.state = "rejected"

\* C24: when the handler finishes, no external call issued by the request is still in
\* flight; in particular, when one of the two concurrent lookups fails, the handler
\* does not respond and finish while the other lookup is still pending.
C24_NothingInFlight ==
    Finished => \A c \in Calls : callState[c] # "pending"

====
